---- MODULE Spec2Model ----
(***************************************************************************)
(* The FoodDetails screen (src/pages/FoodDetails/index.tsx): its four      *)
(* useState cells, its three memoised values, the handler registered in    *)
(* the navigation header, the requests it sends and the favorites/orders   *)
(* resources of the API it talks to.                                       *)
(*                                                                         *)
(* Money is counted in centavos.  A missing field of the initial `{}` food *)
(* is Undefined, and arithmetic on it yields NaN, as in JavaScript.        *)
(*                                                                         *)
(* React commits a state update synchronously: at the end of the event     *)
(* handler that queued it, or inside the setter when it is called from a   *)
(* promise continuation.  Every action below therefore ends with Render,   *)
(* which re-evaluates useMemo/useCallback/useLayoutEffect according to     *)
(* their dependency arrays.                                                *)
(***************************************************************************)
EXTENDS Integers, Sequences, FiniteSets, TLC

VARIABLES
    food,             \* useState({} as Food)
    extras,           \* useState<Extra[]>([])
    isFavorite,       \* useState(false)
    foodQuantity,     \* useState(1)
    cartTotal,        \* useMemo value shown in <TotalPrice>
    favoriteIconName, \* useMemo value
    toggleFavorite,   \* useCallback closure: the isFavorite and food it captured
    headerRight,      \* what navigation.setOptions last registered
    foodReq,          \* GET /foods/{id}: "pending", "done", "failed"
    favoriteReq,      \* GET /favorites/{id}: "sent", "responded", "done", "failed"
    favorite,         \* what GET /favorites/{id} resolved to: "none" yet, "record", "empty"
    requests,         \* favorites requests issued by toggleFavorite, in issue order
    orders,           \* payloads passed to api.post('orders', ...)
    navigated,        \* navigation.navigate('DashboardStack') was called
    serverFood,       \* the record the API serves for /foods/{id}
    favoriteRecord,   \* the API holds a favorites record for the route id
    last,             \* the step taken last (observer)
    prev,             \* the state cells and request counts before that step (observer)
    calls             \* number of user-triggered handler calls so far (observer)

vars == <<food, extras, isFavorite, foodQuantity, cartTotal, favoriteIconName,
          toggleFavorite, headerRight, foodReq, favoriteReq, favorite,
          requests, orders, navigated, serverFood, favoriteRecord,
          last, prev, calls>>

-----------------------------------------------------------------------------
(* Bounds *)

MaxCalls == 3

-----------------------------------------------------------------------------
(* Values *)

Undefined == -1
NaN == -2
UndefinedStr == "undefined"

RouteId == 7

\* Ids the extra handlers are called with; no served extra carries 9.
ExtraIdArgs == {1, 2, 9}

formatValue(value) ==
    IF value < 0
    THEN [reais |-> NaN, centavos |-> NaN]
    ELSE [reais |-> value \div 100, centavos |-> value % 100]

UndefinedFormatted == [reais |-> Undefined, centavos |-> Undefined]

\* The `{}` the food cell starts with: every field reads as undefined.
EmptyFood ==
    [id |-> Undefined, name |-> UndefinedStr, description |-> UndefinedStr,
     price |-> Undefined, image_url |-> UndefinedStr,
     formattedPrice |-> UndefinedFormatted, extras |-> <<>>]

\* Records the API may serve for GET /foods/{RouteId}.
ServerFoods ==
    { [id |-> RouteId, name |-> "Ao molho", description |-> "Macarrao",
       price |-> 1000, image_url |-> "img1",
       extras |-> << [id |-> 1, name |-> "Bacon", value |-> 200, quantity |-> 0] >>],
      [id |-> RouteId, name |-> "Veggie", description |-> "Salada",
       price |-> 1990, image_url |-> "img2",
       extras |-> << [id |-> 1, name |-> "Bacon", value |-> 150, quantity |-> 2],
                     [id |-> 2, name |-> "Frango", value |-> 90, quantity |-> 0] >>],
      [id |-> RouteId, name |-> "Dupla", description |-> "Repetido",
       price |-> 500, image_url |-> "img3",
       extras |-> << [id |-> 2, name |-> "Queijo", value |-> 100, quantity |-> 0],
                     [id |-> 2, name |-> "Queijo", value |-> 120, quantity |-> 1] >>] }

-----------------------------------------------------------------------------
(* Pure parts of the component *)

\* setFood({...data, formattedPrice: formatValue(data.price)})
LoadedFood(data) ==
    [id |-> data.id, name |-> data.name, description |-> data.description,
     price |-> data.price, image_url |-> data.image_url,
     formattedPrice |-> formatValue(data.price), extras |-> data.extras]

\* data.extras.map(extra => ({...extra, quantity: 0}))
FormattedExtra(data) ==
    [i \in 1..Len(data.extras) |-> [data.extras[i] EXCEPT !.quantity = 0]]

\* Mutant: increments every extra, whatever its id.
IncrementExtraAll(oldExtras, id) ==
    [i \in 1..Len(oldExtras) |->
        [oldExtras[i] EXCEPT !.quantity = oldExtras[i].quantity + 1]]

\* oldExtras.map(extra => extra.id === id ? assign(extra, {quantity + 1}) : extra)
IncrementExtra(oldExtras, id) ==
    [i \in 1..Len(oldExtras) |->
        IF oldExtras[i].id = id
        THEN [oldExtras[i] EXCEPT !.quantity = oldExtras[i].quantity + 1]
        ELSE oldExtras[i]]

\* Mutant: decrements without the floor at 0.
DecrementExtraNoFloor(oldExtras, id) ==
    [i \in 1..Len(oldExtras) |->
        IF oldExtras[i].id = id
        THEN [oldExtras[i] EXCEPT !.quantity = oldExtras[i].quantity - 1]
        ELSE oldExtras[i]]

\* ... quantity: extra.quantity >= 1 ? extra.quantity - 1 : extra.quantity
DecrementExtra(oldExtras, id) ==
    [i \in 1..Len(oldExtras) |->
        IF oldExtras[i].id = id
        THEN [oldExtras[i] EXCEPT !.quantity =
                 IF oldExtras[i].quantity >= 1
                 THEN oldExtras[i].quantity - 1
                 ELSE oldExtras[i].quantity]
        ELSE oldExtras[i]]

\* oldQuantity => oldQuantity + 1
IncrementFood(oldQuantity) == oldQuantity + 1

\* Mutant: the floor test reads >= 1 instead of > 1.
DecrementFoodToZero(oldQuantity) ==
    IF oldQuantity >= 1 THEN oldQuantity - 1 ELSE oldQuantity

\* oldQuantity => oldQuantity > 1 ? oldQuantity - 1 : oldQuantity
DecrementFood(oldQuantity) ==
    IF oldQuantity > 1 THEN oldQuantity - 1 ELSE oldQuantity

\* JavaScript + and * on numbers that may be undefined or NaN.
JsAdd(a, b) == IF a < 0 \/ b < 0 THEN NaN ELSE a + b
JsMul(a, b) == IF a < 0 \/ b < 0 THEN NaN ELSE a * b

\* extras.reduce((accumulator, extra) => accumulator + extra.quantity * extra.value, 0)
RECURSIVE ReduceExtras(_, _)
ReduceExtras(accumulator, list) ==
    IF list = <<>>
    THEN accumulator
    ELSE ReduceExtras(JsAdd(accumulator, JsMul(Head(list).quantity, Head(list).value)),
                      Tail(list))

\* formatValue((totalExtras + totalFood) * foodQuantity)
CartTotal(extrasNow, foodNow, quantityNow) ==
    formatValue(JsMul(JsAdd(ReduceExtras(0, extrasNow), foodNow.price), quantityNow))

\* isFavorite ? 'favorite' : 'favorite-border'
FavoriteIconName(fav) == IF fav THEN "favorite" ELSE "favorite-border"

\* Mutant: foodQuantity left out of cartTotal's dependency array.
CartTotalDepsNoQuantity(extrasChanged, foodChanged, quantityChanged) ==
    extrasChanged \/ foodChanged

\* Mutant: isFavorite left out of toggleFavorite's dependency array.
ToggleFavoriteDepsNoFavorite(favoriteChanged, foodChanged) == foodChanged

\* Dependency arrays: does the hook run again, given which cells changed?
CartTotalDeps(extrasChanged, foodChanged, quantityChanged) ==
    extrasChanged \/ foodChanged \/ quantityChanged

FavoriteIconNameDeps(favoriteChanged) == favoriteChanged

ToggleFavoriteDeps(favoriteChanged, foodChanged) ==
    favoriteChanged \/ foodChanged

HeaderDeps(iconChanged, toggleChanged) == iconChanged \/ toggleChanged

\* if (favorite) setIsFavorite(oldState => !oldState)
FavoriteLoaded(oldState, resolved) ==
    IF resolved = "record" THEN ~oldState ELSE oldState

\* Mutant: the payload carries food.extras instead of the extras cell.
FormattedFoodServerExtras(foodNow, extrasNow) ==
    [product_id |-> foodNow.id, name |-> foodNow.name,
     description |-> foodNow.description, price |-> foodNow.price,
     thumbnail_url |-> foodNow.image_url, extras |-> foodNow.extras]

\* const formattedFood = { product_id: id, name, description, price,
\*                         thumbnail_url: image_url, extras }
FormattedFood(foodNow, extrasNow) ==
    [product_id |-> foodNow.id, name |-> foodNow.name,
     description |-> foodNow.description, price |-> foodNow.price,
     thumbnail_url |-> foodNow.image_url, extras |-> extrasNow]

\* The request toggleFavorite sends, from the values its closure captured.
\* A DELETE has no body (data reads as the empty object), a POST no id in its url.
FavoriteRequest(closure) ==
    IF closure.isFavorite
    THEN [method |-> "DELETE", id |-> closure.food.id, data |-> EmptyFood,
          status |-> "sent"]
    ELSE [method |-> "POST", id |-> Undefined, data |-> closure.food,
          status |-> "sent"]

-----------------------------------------------------------------------------
(* Rendering *)

Cells == [food |-> food, extras |-> extras, isFavorite |-> isFavorite,
          foodQuantity |-> foodQuantity,
          requests |-> Len(requests), orders |-> Len(orders)]

\* One commit of the component after the cells took their primed values.
Render(foodChanged, extrasChanged, quantityChanged, favoriteChanged) ==
    /\ cartTotal' =
          IF CartTotalDeps(extrasChanged, foodChanged, quantityChanged)
          THEN CartTotal(extras', food', foodQuantity')
          ELSE cartTotal
    /\ favoriteIconName' =
          IF FavoriteIconNameDeps(favoriteChanged)
          THEN FavoriteIconName(isFavorite')
          ELSE favoriteIconName
    /\ toggleFavorite' =
          IF ToggleFavoriteDeps(favoriteChanged, foodChanged)
          THEN [isFavorite |-> isFavorite', food |-> food']
          ELSE toggleFavorite
    /\ headerRight' =
          IF HeaderDeps(favoriteIconName' # favoriteIconName,
                        ToggleFavoriteDeps(favoriteChanged, foodChanged))
          THEN [name |-> favoriteIconName', toggleFavorite |-> toggleFavorite']
          ELSE headerRight

Observe(op, id) ==
    /\ last' = [op |-> op, id |-> id]
    /\ prev' = Cells

UserCall == calls < MaxCalls /\ calls' = calls + 1

-----------------------------------------------------------------------------
(* Initial state: the first render, both GETs sent *)

Init ==
    /\ food = EmptyFood
    /\ extras = <<>>
    /\ isFavorite = FALSE
    /\ foodQuantity = 1
    /\ cartTotal = CartTotal(<<>>, EmptyFood, 1)
    /\ favoriteIconName = FavoriteIconName(FALSE)
    /\ toggleFavorite = [isFavorite |-> FALSE, food |-> EmptyFood]
    /\ headerRight = [name |-> FavoriteIconName(FALSE),
                      toggleFavorite |-> [isFavorite |-> FALSE, food |-> EmptyFood]]
    /\ foodReq = "pending"
    /\ favoriteReq = "sent"
    /\ favorite = "none"
    /\ requests = <<>>
    /\ orders = <<>>
    /\ navigated = FALSE
    /\ serverFood \in ServerFoods
    /\ favoriteRecord \in BOOLEAN
    /\ last = [op |-> "mount", id |-> Undefined]
    /\ prev = [food |-> EmptyFood, extras |-> <<>>, isFavorite |-> FALSE,
               foodQuantity |-> 1, requests |-> 0, orders |-> 0]
    /\ calls = 0

-----------------------------------------------------------------------------
(* Load completions *)

\* Mutant: the food load also resets the favorite flag.
LoadFoodDoneResetsFavorite ==
    /\ foodReq = "pending"
    /\ foodReq' = "done"
    /\ food' = LoadedFood(serverFood)
    /\ extras' = FormattedExtra(serverFood)
    /\ isFavorite' = FALSE
    /\ UNCHANGED foodQuantity
    /\ Render(TRUE, TRUE, FALSE, isFavorite' # isFavorite)
    /\ Observe("loadFood", Undefined)
    /\ UNCHANGED <<favoriteReq, favorite, requests, orders, navigated,
                   serverFood, favoriteRecord, calls>>

LoadFoodDone ==
    /\ foodReq = "pending"
    /\ foodReq' = "done"
    /\ food' = LoadedFood(serverFood)
    /\ extras' = FormattedExtra(serverFood)
    /\ UNCHANGED <<isFavorite, foodQuantity>>
    /\ Render(TRUE, TRUE, FALSE, FALSE)
    /\ Observe("loadFood", Undefined)
    /\ UNCHANGED <<favoriteReq, favorite, requests, orders, navigated,
                   serverFood, favoriteRecord, calls>>

LoadFoodFails ==
    /\ foodReq = "pending"
    /\ foodReq' = "failed"
    /\ Observe("loadFoodFailed", Undefined)
    /\ UNCHANGED <<food, extras, isFavorite, foodQuantity, cartTotal,
                   favoriteIconName, toggleFavorite, headerRight,
                   favoriteReq, favorite, requests, orders, navigated,
                   serverFood, favoriteRecord, calls>>

\* The API answers GET /favorites/{id} from the record it holds then.
ServeFavorite ==
    /\ favoriteReq = "sent"
    /\ favoriteReq' = "responded"
    /\ favorite' = IF favoriteRecord THEN "record" ELSE "empty"
    /\ Observe("serveFavorite", Undefined)
    /\ UNCHANGED <<food, extras, isFavorite, foodQuantity, cartTotal,
                   favoriteIconName, toggleFavorite, headerRight,
                   foodReq, requests, orders, navigated,
                   serverFood, favoriteRecord, calls>>

LoadFavoriteDone ==
    /\ favoriteReq = "responded"
    /\ favoriteReq' = "done"
    /\ isFavorite' = FavoriteLoaded(isFavorite, favorite)
    /\ UNCHANGED <<food, extras, foodQuantity>>
    /\ Render(FALSE, FALSE, FALSE, isFavorite' # isFavorite)
    /\ Observe("loadFavorite", Undefined)
    /\ UNCHANGED <<foodReq, favorite, requests, orders, navigated,
                   serverFood, favoriteRecord, calls>>

LoadFavoriteFails ==
    /\ favoriteReq \in {"sent", "responded"}
    /\ favoriteReq' = "failed"
    /\ Observe("loadFavoriteFailed", Undefined)
    /\ UNCHANGED <<food, extras, isFavorite, foodQuantity, cartTotal,
                   favoriteIconName, toggleFavorite, headerRight,
                   foodReq, favorite, requests, orders, navigated,
                   serverFood, favoriteRecord, calls>>

-----------------------------------------------------------------------------
(* Handlers *)

handleIncrementExtra(id) ==
    /\ UserCall
    /\ extras' = IncrementExtra(extras, id)
    /\ UNCHANGED <<food, isFavorite, foodQuantity>>
    /\ Render(FALSE, TRUE, FALSE, FALSE)
    /\ Observe("handleIncrementExtra", id)
    /\ UNCHANGED <<foodReq, favoriteReq, favorite, requests, orders, navigated,
                   serverFood, favoriteRecord>>

handleDecrementExtra(id) ==
    /\ UserCall
    /\ extras' = DecrementExtra(extras, id)
    /\ UNCHANGED <<food, isFavorite, foodQuantity>>
    /\ Render(FALSE, TRUE, FALSE, FALSE)
    /\ Observe("handleDecrementExtra", id)
    /\ UNCHANGED <<foodReq, favoriteReq, favorite, requests, orders, navigated,
                   serverFood, favoriteRecord>>

handleIncrementFood ==
    /\ UserCall
    /\ foodQuantity' = IncrementFood(foodQuantity)
    /\ UNCHANGED <<food, extras, isFavorite>>
    /\ Render(FALSE, FALSE, foodQuantity' # foodQuantity, FALSE)
    /\ Observe("handleIncrementFood", Undefined)
    /\ UNCHANGED <<foodReq, favoriteReq, favorite, requests, orders, navigated,
                   serverFood, favoriteRecord>>

handleDecrementFood ==
    /\ UserCall
    /\ foodQuantity' = DecrementFood(foodQuantity)
    /\ UNCHANGED <<food, extras, isFavorite>>
    /\ Render(FALSE, FALSE, foodQuantity' # foodQuantity, FALSE)
    /\ Observe("handleDecrementFood", Undefined)
    /\ UNCHANGED <<foodReq, favoriteReq, favorite, requests, orders, navigated,
                   serverFood, favoriteRecord>>

\* The header icon's onPress: runs the toggleFavorite closure it was given.
PressFavorite ==
    /\ UserCall
    /\ requests' = Append(requests, FavoriteRequest(headerRight.toggleFavorite))
    /\ isFavorite' = ~isFavorite
    /\ UNCHANGED <<food, extras, foodQuantity>>
    /\ Render(FALSE, FALSE, FALSE, TRUE)
    /\ Observe("toggleFavorite", Undefined)
    /\ UNCHANGED <<foodReq, favoriteReq, favorite, orders, navigated,
                   serverFood, favoriteRecord>>

handleFinishOrder ==
    /\ UserCall
    /\ orders' = Append(orders, FormattedFood(food, extras))
    /\ navigated' = TRUE
    /\ Observe("handleFinishOrder", Undefined)
    /\ UNCHANGED <<food, extras, isFavorite, foodQuantity, cartTotal,
                   favoriteIconName, toggleFavorite, headerRight,
                   foodReq, favoriteReq, favorite, requests,
                   serverFood, favoriteRecord>>

-----------------------------------------------------------------------------
(* The API handling the favorites requests; nothing awaits their promises *)

\* The effect of one favorites request on the record kept for RouteId.
ServedRecord(request, record) ==
    IF request.method = "POST"
    THEN (IF request.data.id = RouteId THEN TRUE ELSE record)
    ELSE (IF request.id = RouteId THEN FALSE ELSE record)

\* A DELETE of favorites/undefined names no record and cannot succeed.
Servable(request) ==
    request.method = "DELETE" => request.id = RouteId

FavoriteRequestDone(i) ==
    /\ requests[i].status = "sent"
    /\ Servable(requests[i])
    /\ favoriteRecord' = ServedRecord(requests[i], favoriteRecord)
    /\ requests' = [requests EXCEPT ![i].status = "ok"]
    /\ Observe("favoriteRequestDone", i)
    /\ UNCHANGED <<food, extras, isFavorite, foodQuantity, cartTotal,
                   favoriteIconName, toggleFavorite, headerRight,
                   foodReq, favoriteReq, favorite, orders, navigated,
                   serverFood, calls>>

\* Mutant: a failed request rolls the flag back.
FavoriteRequestFailsRollback(i) ==
    /\ requests[i].status = "sent"
    /\ requests' = [requests EXCEPT ![i].status = "failed"]
    /\ isFavorite' = ~isFavorite
    /\ UNCHANGED <<food, extras, foodQuantity>>
    /\ Render(FALSE, FALSE, FALSE, TRUE)
    /\ Observe("favoriteRequestFailed", i)
    /\ UNCHANGED <<foodReq, favoriteReq, favorite, orders, navigated,
                   serverFood, favoriteRecord, calls>>

FavoriteRequestFails(i) ==
    /\ requests[i].status = "sent"
    /\ requests' = [requests EXCEPT ![i].status = "failed"]
    /\ Observe("favoriteRequestFailed", i)
    /\ UNCHANGED <<food, extras, isFavorite, foodQuantity, cartTotal,
                   favoriteIconName, toggleFavorite, headerRight,
                   foodReq, favoriteReq, favorite, orders, navigated,
                   serverFood, favoriteRecord, calls>>

-----------------------------------------------------------------------------

Next ==
    \/ LoadFoodDone
    \/ LoadFoodFails
    \/ ServeFavorite
    \/ LoadFavoriteDone
    \/ LoadFavoriteFails
    \/ \E id \in ExtraIdArgs : handleIncrementExtra(id)
    \/ \E id \in ExtraIdArgs : handleDecrementExtra(id)
    \/ handleIncrementFood
    \/ handleDecrementFood
    \/ PressFavorite
    \/ handleFinishOrder
    \/ \E i \in 1..Len(requests) : FavoriteRequestDone(i)
    \/ \E i \in 1..Len(requests) : FavoriteRequestFails(i)

Spec == Init /\ [][Next]_vars

TypeOK ==
    /\ isFavorite \in BOOLEAN
    /\ foodQuantity \in Nat
    /\ calls \in 0..MaxCalls

-----------------------------------------------------------------------------
(* Properties *)

ExtraHandlers == {"handleIncrementExtra", "handleDecrementExtra"}

\* C1: every extra has quantity >= 0 in every reachable state, and
\* handleDecrementExtra on an extra whose quantity is 0 leaves it at 0.
C1_ExtraQuantityNeverNegative ==
    /\ \A i \in 1..Len(extras) : extras[i].quantity >= 0
    /\ last.op = "handleDecrementExtra" =>
          \A i \in 1..Len(extras) :
              (extras[i].id = last.id /\ prev.extras[i].quantity = 0)
                  => extras[i].quantity = 0

C1_Witness ==
    /\ last.op = "handleDecrementExtra"
    /\ \E i \in 1..Len(extras) :
          /\ extras[i].id = last.id
          /\ prev.extras[i].quantity = 0
          /\ extras[i].quantity = 0

\* C2: foodQuantity is >= 1 in every reachable state; handleDecrementFood at 1
\* leaves it at 1, and handleIncrementFood adds exactly 1.
C2_FoodQuantityAtLeastOne ==
    /\ foodQuantity >= 1
    /\ (last.op = "handleDecrementFood" /\ prev.foodQuantity = 1) => foodQuantity = 1
    /\ last.op = "handleIncrementFood" => foodQuantity = prev.foodQuantity + 1

C2_Witness ==
    /\ last.op = "handleDecrementFood"
    /\ prev.foodQuantity = 1
    /\ foodQuantity = 1
    /\ calls >= 2

\* The total as the claim words it: the sum over the extras of quantity * value,
\* plus the food's price, times the food quantity.
RECURSIVE SumOfExtras(_, _)
SumOfExtras(list, n) ==
    IF n = 0 THEN 0 ELSE SumOfExtras(list, n - 1) + list[n].quantity * list[n].value

ExpectedTotal == (SumOfExtras(extras, Len(extras)) + food.price) * foodQuantity

\* C3: once the food record has loaded, the displayed total equals
\* (sum of quantity * value over the current extras + food.price) * foodQuantity
\* of the current state, after every handler and load completion.
C3_TotalFromCurrentState ==
    foodReq = "done" =>
        /\ cartTotal = [reais |-> ExpectedTotal \div 100,
                        centavos |-> ExpectedTotal % 100]
        /\ CartTotal(<< [id |-> 1, name |-> "Bacon", value |-> 200, quantity |-> 3] >>,
                     [price |-> 1000], 2) = [reais |-> 32, centavos |-> 0]

C3_Witness ==
    /\ foodReq = "done"
    /\ foodQuantity > 1
    /\ \E i \in 1..Len(extras) : extras[i].quantity > 0
    /\ last.op \in ExtraHandlers \cup {"handleIncrementFood", "handleDecrementFood"}
    /\ cartTotal # prev.food.formattedPrice

\* TRUE iff n is odd.
Odd(n) == n % 2 = 1

\* C4: each toggleFavorite call negates isFavorite exactly once, and no
\* completion or failure of the request it issued changes isFavorite again.
C4_ToggleFlipsOnce ==
    /\ last.op = "toggleFavorite" => isFavorite = ~prev.isFavorite
    /\ last.op \in {"favoriteRequestDone", "favoriteRequestFailed"}
          => isFavorite = prev.isFavorite
    /\ isFavorite = Odd(Len(requests)
                        + (IF favoriteReq = "done" /\ favorite = "record" THEN 1 ELSE 0))

C4_Witness ==
    /\ last.op = "favoriteRequestFailed"
    /\ \E i \in 1..Len(requests) : requests[i].status = "ok"
    /\ \E i \in 1..Len(requests) : requests[i].status = "sent"
    /\ isFavorite = Odd(Len(requests))

\* C5: every toggleFavorite call issues exactly one request: DELETE
\* favorites/{food.id} when isFavorite is true at the call, POST favorites with
\* the food record when it is false.
C5_RequestMatchesFlag ==
    last.op = "toggleFavorite" =>
        /\ Len(requests) = prev.requests + 1
        /\ LET r == requests[Len(requests)] IN
              IF prev.isFavorite
              THEN r.method = "DELETE" /\ r.id = prev.food.id
              ELSE r.method = "POST" /\ r.data = prev.food

C5_Witness ==
    /\ last.op = "toggleFavorite"
    /\ prev.isFavorite
    /\ Len(requests) >= 2
    /\ requests[Len(requests)].method = "DELETE"
    /\ requests[Len(requests)].id = RouteId
    /\ requests[1].method = "POST"

\* C6: after the favorite fetch completes with a record, isFavorite is true,
\* whatever happened before; with no record the completion leaves it unchanged.
C6_FavoriteLoadSetsTrue ==
    last.op = "loadFavorite" =>
        /\ favorite = "record" => isFavorite = TRUE
        /\ favorite = "empty" => isFavorite = prev.isFavorite

\* C7: each handleFinishOrder call issues exactly one POST orders whose payload
\* has exactly the fields product_id, name, description, price, thumbnail_url
\* and extras, taken from food and extras at the call; foodQuantity plays no part.
C7_OrderPayload ==
    last.op = "handleFinishOrder" =>
        /\ Len(orders) = prev.orders + 1
        /\ LET o == orders[Len(orders)] IN
              /\ DOMAIN o = {"product_id", "name", "description", "price",
                             "thumbnail_url", "extras"}
              /\ o.product_id = food.id
              /\ o.name = food.name
              /\ o.description = food.description
              /\ o.price = food.price
              /\ o.thumbnail_url = food.image_url
              /\ o.extras = extras
        /\ food = prev.food /\ extras = prev.extras

C7_Witness ==
    /\ last.op = "handleFinishOrder"
    /\ foodReq = "done"
    /\ foodQuantity > 1
    /\ \E i \in 1..Len(extras) : extras[i].quantity > 0
    /\ orders[Len(orders)].product_id = RouteId

\* C8: handleIncrementExtra(id) and handleDecrementExtra(id) change at most the
\* quantity of the extras whose id is id; everything else, and the whole state
\* when no extra has that id, is unchanged.
C8_ExtraHandlersFrame ==
    last.op \in ExtraHandlers =>
        /\ Len(extras) = Len(prev.extras)
        /\ \A i \in 1..Len(extras) :
              /\ extras[i].id = prev.extras[i].id
              /\ extras[i].name = prev.extras[i].name
              /\ extras[i].value = prev.extras[i].value
              /\ extras[i].id # last.id => extras[i].quantity = prev.extras[i].quantity
        /\ food = prev.food
        /\ foodQuantity = prev.foodQuantity
        /\ isFavorite = prev.isFavorite
        /\ (\A i \in 1..Len(extras) : extras[i].id # last.id) => extras = prev.extras

C8_Witness ==
    /\ last.op = "handleIncrementExtra"
    /\ Len(extras) = 2
    /\ extras[1].id # extras[2].id
    /\ extras[2].id = last.id
    /\ extras[2].quantity = prev.extras[2].quantity + 1
    /\ extras[1].quantity = 1

\* C9: the food-load completion changes only food and extras, the
\* favorite-load completion only isFavorite, so with no user action the state
\* after both completions is the same whichever completed first.
C9_LoadsIndependent ==
    /\ last.op = "loadFood" =>
          isFavorite = prev.isFavorite /\ foodQuantity = prev.foodQuantity
    /\ last.op = "loadFavorite" =>
          food = prev.food /\ extras = prev.extras /\ foodQuantity = prev.foodQuantity
    /\ (calls = 0 /\ foodReq = "done" /\ favoriteReq = "done") =>
          /\ food = LoadedFood(serverFood)
          /\ extras = FormattedExtra(serverFood)
          /\ isFavorite = (favorite = "record")
          /\ foodQuantity = 1

C9_Witness ==
    /\ calls = 0
    /\ foodReq = "done"
    /\ favoriteReq = "done"
    /\ favorite = "record"
    /\ last.op = "loadFood"
    /\ prev.isFavorite

\* C10: whenever the favorite fetch and every create/delete request issued so
\* far have completed successfully, isFavorite equals whether the API holds a
\* favorites record for the food id.
C10_FlagMirrorsServer ==
    (/\ favoriteReq = "done"
     /\ \A i \in 1..Len(requests) : requests[i].status = "ok")
        => isFavorite = favoriteRecord

====
